---- MODULE Spec2Model ----
(***************************************************************************)
(* Model of the runs tests of PruebasEstadisticas:                         *)
(*   prueba_rachas_enc_deb.py  class RachasEncimaDebajo  (prefix Pred)     *)
(*   rachas_encima_debajo.py   class RachasEncimaDebajo  (prefix Red)      *)
(*   main.py                   class InterfazPrincipal   (the shell)       *)
(*                                                                         *)
(* Units.  A sample is kept in tenths (1 = 0.1, 5 = 0.5, 9 = 0.9) and a    *)
(* significance level in thousandths (50 = 0.05).  A real number that the  *)
(* code holds in a float is kept exactly: a rational is a pair <<n, d>>    *)
(* with d > 0 in lowest terms, and the non-negative root of a rational q   *)
(* is the record [radicando |-> q].                                        *)
(***************************************************************************)
EXTENDS Integers, Sequences, FiniteSets, TLC

\* ------------------------------------------------------------- bounds
\* longest sample sequence drawn exhaustively over Valores
MaxLen == 4
\* the alternating sequences 0.1, 0.9, ... have lengths 2, 4, ..., 2*AltPares
AltPares == 50
\* calls of ejecutar / mostrar_tabla_detallada recorded per implementation
MaxLlamadas == 2
\* how many actions of the user on the window a behaviour follows
MaxAcciones == 5

\* sample values: 0.1 (below), 0.5 (on the threshold), 0.9 (above)
Valores == {1, 5, 9}
\* significance levels, in thousandths: -0.05, 0, 0.01, 0.05, 1, 2
Alphas == {-50, 0, 10, 50, 1000, 2000}

\* ------------------------------------------------- exact arithmetic
Abs(x) == IF x < 0 THEN -x ELSE x

RECURSIVE Gcd(_, _)
Gcd(a, b) == IF b = 0 THEN a ELSE Gcd(b, a % b)

\* the rational a/b (b # 0) in lowest terms with a positive denominator
Frac(a, b) ==
    LET g == Gcd(Abs(a), Abs(b))
        s == IF b < 0 THEN -1 ELSE 1
    IN  <<(s * a) \div g, (s * b) \div g>>

QInt(k) == <<k, 1>>
\* mutant: the second term is dropped
QSoloPrimero(x, y) == x
QAdd(x, y) == Frac(x[1] * y[2] + y[1] * x[2], x[2] * y[2])
QSub(x, y) == Frac(x[1] * y[2] - y[1] * x[2], x[2] * y[2])
\* product, reduced crosswise before multiplying
QMul(x, y) ==
    LET g1 == Gcd(Abs(x[1]), y[2])
        g2 == Gcd(Abs(y[1]), x[2])
    IN  Frac((x[1] \div g1) * (y[1] \div g2), (x[2] \div g2) * (y[2] \div g1))
\* quotient x / y for y # 0
QDiv(x, y) == QMul(x, Frac(y[2], y[1]))

\* a/b < c/d for a, c >= 0 and b, d > 0, by the continued-fraction expansion
RECURSIVE MenorFrac(_, _, _, _)
MenorFrac(a, b, c, d) ==
    IF a \div b # c \div d THEN a \div b < c \div d
    ELSE IF c % d = 0 THEN FALSE
    ELSE IF a % b = 0 THEN TRUE
    ELSE MenorFrac(d, c % d, b, a % b)

\* x < y for non-negative rationals
QMenor(x, y) == MenorFrac(x[1], x[2], y[1], y[2])

\* the non-negative square root of the rational q; of a negative q it is
\* what numpy's sqrt gives, not a number
Raiz(q) == [radicando |-> q]
EsNaN(z) == z.radicando[1] < 0

\* ------------------------------------------------ the normal distribution
\* a value of norm.ppf: finite (sign and square), infinite, or not a number
Finito(s, q) == [clase |-> "finito", signo |-> s, cuadrado |-> q]
Infinito(s) == [clase |-> "inf", signo |-> s, cuadrado |-> <<0, 1>>]
NaN == [clase |-> "nan", signo |-> 0, cuadrado |-> <<0, 1>>]

\* norm.ppf(1 - alpha/2) for the levels of Alphas: the quantile's square to
\* six decimals; ppf(1) = inf, ppf(0) = -inf, ppf(1/2) = 0, ppf outside
\* [0, 1] = nan
NormPpf(alpha) ==
    IF alpha < 0 \/ alpha > 2000 THEN NaN
    ELSE IF alpha = 0 THEN Infinito(1)
    ELSE IF alpha = 2000 THEN Infinito(-1)
    ELSE IF alpha = 1000 THEN Finito(1, <<0, 1>>)
    ELSE IF alpha = 10 THEN Finito(1, <<6634897, 1000000>>)
    ELSE IF alpha = 50 THEN Finito(1, <<3841459, 1000000>>)
    ELSE Finito(1, <<2705543, 1000000>>)

\* mutant: the comparison is z >= c
MayorOIgual(z, c) ==
    IF c.clase = "nan" \/ EsNaN(z) THEN FALSE
    ELSE IF c.clase = "inf" THEN c.signo < 0
    ELSE IF c.signo < 0 THEN TRUE
    ELSE ~QMenor(z.radicando, c.cuadrado)

\* z > c for the statistic z = Raiz(q) >= 0 and a value c of norm.ppf; every
\* comparison with nan is false
MayorQue(z, c) ==
    IF c.clase = "nan" \/ EsNaN(z) THEN FALSE
    ELSE IF c.clase = "inf" THEN c.signo < 0
    ELSE IF c.signo < 0 THEN TRUE
    ELSE QMenor(c.cuadrado, z.radicando)

\* 2 * (1 - norm.cdf(|z|)), kept as the band of the two-sided table it falls
\* in: the smallest tabulated level (thousandths) that z exceeds the quantile
\* of, 1000 when it exceeds none
PValor(z) ==
    IF MayorQue(z, Finito(1, <<10827566, 1000000>>)) THEN 1
    ELSE IF MayorQue(z, NormPpf(10)) THEN 10
    ELSE IF MayorQue(z, NormPpf(50)) THEN 50
    ELSE IF MayorQue(z, NormPpf(100)) THEN 100
    ELSE 1000

\* ------------------------------------------------------- sequences
\* mutant: every element is counted
ContarTodos(s, x) == Len(s)

\* list.count(x)
Contar(s, x) == Cardinality({i \in 1..Len(s) : s[i] = x})

\* mutant: the slice is not cut
SinCortar(s, k) == s

\* the first k elements of s (s[:k])
Prefijo(s, k) == SubSeq(s, 1, IF Len(s) < k THEN Len(s) ELSE k)

\* mutant: the elements in decreasing order
RECURSIVE OrdenarAlReves(_)
OrdenarAlReves(S) ==
    IF S = {} THEN <<>>
    ELSE LET m == CHOOSE x \in S : \A y \in S : x >= y
         IN  <<m>> \o OrdenarAlReves(S \ {m})

\* the elements of the finite set S of integers in increasing order (sorted)
RECURSIVE Ordenar(_)
Ordenar(S) ==
    IF S = {} THEN <<>>
    ELSE LET m == CHOOSE x \in S : \A y \in S : x <= y
         IN  <<m>> \o Ordenar(S \ {m})

\* ---------------------------------------------------------------------
\* prueba_rachas_enc_deb.py : class RachasEncimaDebajo
\* ---------------------------------------------------------------------
SinTabla == [definida |-> FALSE, LONGITUD |-> <<>>, TOTAL |-> <<>>]

\* __init__: the instance after construction
PredNuevo(datos, alpha) ==
    [datos |-> datos, alpha |-> alpha, numeros |-> datos,
     simbolos |-> <<>>, n1 |-> 0, n2 |-> 0, grupos |-> <<>>, B |-> 0,
     conteo_longitudes |-> <<>>, tabla |-> SinTabla,
     mu_B |-> <<0, 1>>, sigma2_B |-> <<0, 1>>, sigma_B |-> Raiz(<<0, 1>>),
     z_prueba |-> Raiz(<<0, 1>>), z_teorico |-> Finito(1, <<0, 1>>),
     p_valor |-> 0]

\* the symbol of one sample: '+' if x >= 0.5 else '-'
SimboloPred(x) == IF x >= 5 THEN "+" ELSE "-"

\* mutant: the samples are replaced in place by 0.9 and 0.1
ConvertirEnSitio(o) ==
    [o EXCEPT !.simbolos = [i \in 1..Len(o.numeros) |-> SimboloPred(o.numeros[i])],
              !.datos = [i \in 1..Len(o.datos) |-> IF o.datos[i] >= 5 THEN 9 ELSE 1]]

_convertir_a_simbolos(o) ==
    [o EXCEPT !.simbolos = [i \in 1..Len(o.numeros) |-> SimboloPred(o.numeros[i])]]

\* mutant: n2 is counted from the second symbol on
ContarDesdeElSegundo(o) ==
    [o EXCEPT !.n1 = Contar(o.simbolos, "+"),
              !.n2 = Contar(SubSeq(o.simbolos, 2, Len(o.simbolos)), "-")]

_contar_simbolos(o) ==
    [o EXCEPT !.n1 = Contar(o.simbolos, "+"), !.n2 = Contar(o.simbolos, "-")]

\* mutant: a closed group is recorded with the symbol that ends it
AgruparPasoSimboloNuevo(s, st, i) ==
    IF s[i] = st.simbolo_actual
    THEN [st EXCEPT !.longitud = @ + 1]
    ELSE [grupos |-> Append(st.grupos, <<s[i], st.longitud>>),
          B |-> st.B + 1, simbolo_actual |-> s[i], longitud |-> 1]

\* mutant: the run is closed at every symbol
AgruparPasoSiempreCierra(s, st, i) ==
    [grupos |-> Append(st.grupos, <<st.simbolo_actual, st.longitud>>),
     B |-> st.B + 1, simbolo_actual |-> s[i], longitud |-> 1]

\* the body of the loop of _agrupar_simbolos at index i (1-based), on the
\* loop's variables st
AgruparPaso(s, st, i) ==
    IF s[i] = st.simbolo_actual
    THEN [st EXCEPT !.longitud = @ + 1]
    ELSE [grupos |-> Append(st.grupos, <<st.simbolo_actual, st.longitud>>),
          B |-> st.B + 1, simbolo_actual |-> s[i], longitud |-> 1]

\* the loop for i = lo, ..., hi in order; the range is run in two halves so
\* that the evaluation stays shallow on long sequences (the test of
\* st.longitud, which is never 0, makes TLC evaluate the first half before
\* it starts the second)
RECURSIVE AgruparBucle(_, _, _, _)
AgruparBucle(s, lo, hi, st) ==
    IF lo > hi \/ st.longitud = 0 THEN st
    ELSE IF lo = hi THEN AgruparPaso(s, st, lo)
    ELSE AgruparBucle(s, ((lo + hi) \div 2) + 1, hi,
                      AgruparBucle(s, lo, (lo + hi) \div 2, st))

\* the scan of _agrupar_simbolos on a non-empty s with B starting at B0:
\* the loop, then the last group is appended
Agrupar(s, B0) ==
    LET st == AgruparBucle(s, 2, Len(s),
                  [grupos |-> <<>>, B |-> B0, simbolo_actual |-> s[1],
                   longitud |-> 1])
    IN  [grupos |-> Append(st.grupos, <<st.simbolo_actual, st.longitud>>),
         B |-> st.B + 1]

\* mutant: self.B is not reset before the scan
AgruparSinReiniciarB(o) ==
    IF o.simbolos = <<>> THEN o
    ELSE LET r == Agrupar(o.simbolos, o.B)
         IN  [o EXCEPT !.grupos = r.grupos, !.B = r.B]

\* mutant: the last group is never appended
AgruparSinUltimo(o) ==
    IF o.simbolos = <<>> THEN o
    ELSE LET r == Agrupar(o.simbolos, 0)
         IN  [o EXCEPT !.grupos = SubSeq(r.grupos, 1, Len(r.grupos) - 1),
                       !.B = r.B - 1]

_agrupar_simbolos(o) ==
    IF o.simbolos = <<>> THEN o
    ELSE LET r == Agrupar(o.simbolos, 0)
         IN  [o EXCEPT !.grupos = r.grupos, !.B = r.B]

_contar_longitudes(o) ==
    LET claves == {o.grupos[k][2] : k \in 1..Len(o.grupos)}
    IN  [o EXCEPT !.conteo_longitudes =
            [l \in claves |-> Cardinality({k \in 1..Len(o.grupos) : o.grupos[k][2] = l})]]

_crear_tabla(o) ==
    LET orden == Ordenar(DOMAIN o.conteo_longitudes)
    IN  [o EXCEPT !.tabla =
            [definida |-> TRUE, LONGITUD |-> orden,
             TOTAL |-> [k \in 1..Len(orden) |-> o.conteo_longitudes[orden[k]]]]]

\* mutant: z is always the quotient, so a zero deviation divides by zero
EstadisticosSinRamaCero(o) ==
    LET N == o.n1 + o.n2
        mu == QAdd(Frac(2 * o.n1 * o.n2, N), QInt(1))
        numerador == 2 * o.n1 * o.n2 * (2 * o.n1 * o.n2 - o.n1 - o.n2)
        denominador == (N * N) * (N - 1)
        sigma2 == Frac(numerador, denominador)
        o3 == [o EXCEPT !.mu_B = mu, !.sigma2_B = sigma2, !.sigma_B = Raiz(sigma2)]
        z == Raiz(QDiv(QMul(QSub(QInt(o.B), mu), QSub(QInt(o.B), mu)), sigma2))
        o4 == [o3 EXCEPT !.z_prueba = z, !.z_teorico = NormPpf(o.alpha),
                         !.p_valor = PValor(z)]
    IN  IF N = 0 \/ denominador = 0 \/ numerador <= 0
        THEN [obj |-> o3, exc |-> "ZeroDivisionError"]
        ELSE [obj |-> o4, exc |-> ""]

\* _calcular_estadisticos: the instance it leaves and the exception it raises
\* ("" when none).  A division by zero raises before its target is assigned.
_calcular_estadisticos(o) ==
    LET N == o.n1 + o.n2
        mu == QAdd(Frac(2 * o.n1 * o.n2, N), QInt(1))
        numerador == 2 * o.n1 * o.n2 * (2 * o.n1 * o.n2 - o.n1 - o.n2)
        denominador == (N * N) * (N - 1)
        sigma2 == Frac(numerador, denominador)
        o1 == [o EXCEPT !.mu_B = mu]
        o2 == [o1 EXCEPT !.sigma2_B = sigma2]
        o3 == [o2 EXCEPT !.sigma_B = Raiz(sigma2)]
        z == IF sigma2[1] # 0
             THEN Raiz(QDiv(QMul(QSub(QInt(o.B), mu), QSub(QInt(o.B), mu)), sigma2))
             ELSE Raiz(<<0, 1>>)
        o4 == [o3 EXCEPT !.z_prueba = z, !.z_teorico = NormPpf(o.alpha),
                         !.p_valor = PValor(z)]
    IN  IF N = 0 THEN [obj |-> o, exc |-> "ZeroDivisionError"]
        ELSE IF denominador = 0 THEN [obj |-> o1, exc |-> "ZeroDivisionError"]
        ELSE IF numerador < 0 THEN [obj |-> o2, exc |-> "ValueError"]
        ELSE [obj |-> o4, exc |-> ""]

\* mutant: the result carries no p_valor
EvaluarSinPValor(o) ==
    [estadistico |-> o.z_prueba, valor_critico |-> o.z_teorico,
     rechaza_h0 |-> MayorQue(o.z_prueba, o.z_teorico),
     tipo_prueba |-> "Prueba de Rachas", alpha |-> o.alpha, B |-> o.B,
     mu_B |-> o.mu_B, sigma_B |-> o.sigma_B, n1 |-> o.n1, n2 |-> o.n2,
     total_datos |-> Len(o.numeros)]

_evaluar_hipotesis(o) ==
    [estadistico |-> o.z_prueba, valor_critico |-> o.z_teorico,
     p_valor |-> o.p_valor, rechaza_h0 |-> MayorQue(o.z_prueba, o.z_teorico),
     tipo_prueba |-> "Prueba de Rachas", alpha |-> o.alpha, B |-> o.B,
     mu_B |-> o.mu_B, sigma_B |-> o.sigma_B, n1 |-> o.n1, n2 |-> o.n2,
     total_datos |-> Len(o.numeros)]

\* ejecutar: the instance it leaves and the dictionary it returns
PredEjecutar(o) ==
    LET o5 == _crear_tabla(_contar_longitudes(_agrupar_simbolos(
                  _contar_simbolos(_convertir_a_simbolos(o)))))
        c == _calcular_estadisticos(o5)
    IN  IF c.exc = ""
        THEN [obj |-> c.obj, ret |-> _evaluar_hipotesis(c.obj)]
        ELSE [obj |-> c.obj,
              ret |-> [error |-> TRUE, mensaje |-> c.exc,
                       tipo_prueba |-> "Prueba de Rachas", alpha |-> o.alpha]]

\* ---------------------------------------------------------------------
\* rachas_encima_debajo.py : class RachasEncimaDebajo
\* ---------------------------------------------------------------------
\* self.umbral, in tenths
Umbral == 5
\* length of the symbol preview in the result
VistaPrevia == 50

\* mutant: the comparison with the threshold is not strict
SimboloRedNoEstricto(dato) == IF dato >= 5 THEN "+" ELSE "-"

\* the symbol of one sample: '+' if dato > self.umbral else '-'
SimboloRed(dato) == IF dato > Umbral THEN "+" ELSE "-"

\* the attributes __init__ assigns
RedAtributos(datos, alpha) ==
    LET secuencia == [i \in 1..Len(datos) |-> SimboloRed(datos[i])]
        n1 == Contar(secuencia, "+")
        n2 == Contar(secuencia, "-")
    IN  [datos |-> datos, alpha |-> alpha, n_total |-> Len(datos),
         umbral |-> Umbral, secuencia |-> secuencia,
         n1 |-> n1, n2 |-> n2, N |-> n1 + n2]

\* __init__: the exception it raises ("" when none) and the instance it builds
RedNuevo(datos, alpha) ==
    IF Len(datos) = 0
    THEN [exc |-> "ValueError", obj |-> RedAtributos(datos, alpha)]
    ELSE [exc |-> "", obj |-> RedAtributos(datos, alpha)]

\* mutant: only the steps from '-' to '+' are counted
ContarSoloSubidas(s, lo, hi, num_rachas) ==
    num_rachas + Cardinality({i \in lo..hi : s[i - 1] = "-" /\ s[i] = "+"})

\* the loop of _contar_rachas for i = lo, ..., hi in order (1-based), run
\* in two halves so that the evaluation stays shallow on long sequences (the
\* test of num_rachas, which is never negative, makes TLC evaluate the first
\* half before it starts the second)
RECURSIVE ContarRachasBucle(_, _, _, _)
ContarRachasBucle(s, lo, hi, num_rachas) ==
    IF lo > hi \/ num_rachas < 0 THEN num_rachas
    ELSE IF lo = hi
    THEN (IF s[lo] # s[lo - 1] THEN num_rachas + 1 ELSE num_rachas)
    ELSE ContarRachasBucle(s, ((lo + hi) \div 2) + 1, hi,
                           ContarRachasBucle(s, lo, (lo + hi) \div 2, num_rachas))

\* mutant: the count starts at 0, so the first run is not counted
ContarRachasDesdeCero(o) ==
    IF o.secuencia = <<>> THEN 0
    ELSE ContarRachasBucle(o.secuencia, 2, Len(o.secuencia), 0)

\* mutant: every position counts as a run
ContarRachasPorPosicion(o) == Len(o.secuencia)

_contar_rachas(o) ==
    IF o.secuencia = <<>> THEN 0
    ELSE ContarRachasBucle(o.secuencia, 2, Len(o.secuencia), 1)

\* ejecutar: the dictionary it returns (it assigns no attribute)
RedEjecutar(o) ==
    LET R == _contar_rachas(o)
        mu_R == QAdd(Frac(2 * o.n1 * o.n2, o.n1 + o.n2), QInt(1))
        numerador == 2 * o.n1 * o.n2 * (2 * o.n1 * o.n2 - o.n1 - o.n2)
        denominador == ((o.n1 + o.n2) * (o.n1 + o.n2)) * (o.n1 + o.n2 - 1)
        sigma_R_squared == Frac(numerador, denominador)
        sigma_R == Raiz(sigma_R_squared)
        Z == IF EsNaN(sigma_R) THEN sigma_R
             ELSE Raiz(QDiv(QMul(QSub(QInt(R), mu_R), QSub(QInt(R), mu_R)),
                            sigma_R_squared))
        valor_critico == NormPpf(o.alpha)
    IN  IF o.N = 0 \/ o.n1 = 0 \/ o.n2 = 0
        THEN [error |-> "No se pueden calcular las rachas"]
        ELSE IF denominador = 0
        THEN [error |-> "Denominador igual a cero"]
        ELSE IF sigma_R_squared[1] = 0
        THEN [error |-> "Desviacion estandar igual a cero"]
        ELSE [estadistico |-> Z, valor_critico |-> valor_critico,
              p_valor |-> PValor(Z), rechaza_h0 |-> MayorQue(Z, valor_critico),
              tipo_prueba |-> "Rachas Encima/Debajo (Umbral 0.5)",
              alpha |-> o.alpha, n_total |-> o.n_total, umbral |-> o.umbral,
              n1 |-> o.n1, n2 |-> o.n2, rachas_observadas |-> R,
              rachas_esperadas |-> mu_R, desviacion_estandar |-> sigma_R,
              secuencia |-> Prefijo(o.secuencia, VistaPrevia)
                  \o (IF Len(o.secuencia) > VistaPrevia
                      THEN <<".", ".", ".">> ELSE <<>>)]

\* ---------------------------------------------------------------------
\* A caller that owns one sample sequence and one significance level,
\* imports the class RachasEncimaDebajo from one of the two modules, and
\* builds and runs it on them any number of times.
\* ---------------------------------------------------------------------
VARIABLES
    modulo,     \* the module the caller imports RachasEncimaDebajo from
    muestra,    \* the caller's sample sequence
    nivel,      \* the caller's significance level
    pred_ok,    \* an instance of prueba_rachas_enc_deb.RachasEncimaDebajo exists
    pred,       \* its attributes
    pred_rets,  \* what its ejecutar() returned, call by call
    pred_obtenido, \* the accessor the caller called last on it, "" if none
    red_ok,     \* an instance of rachas_encima_debajo.RachasEncimaDebajo exists
    red,        \* its attributes
    red_exc,    \* the exception the last constructor call raised, "" if none
    red_rets,   \* what its ejecutar() returned, call by call
    red_vista,  \* what the last mostrar_tabla_detallada showed
    llamadas    \* calls of ejecutar() made on the current instance

vars_nucleo ==
    <<modulo, muestra, nivel, pred_ok, pred, pred_rets, pred_obtenido, red_ok, red,
      red_exc, red_rets, red_vista, llamadas>>

\* ---------------------------------------------------------------------
\* main.py : class InterfazPrincipal, the state of the window
\* ---------------------------------------------------------------------
VARIABLES
    importados,          \* how many names the import block at the top bound
    datos,               \* self.datos (<<>> while no file is loaded)
    archivo_cargado,     \* self.archivo_cargado
    seleccion,           \* the six check boxes var_chi, ..., var_long_enc
    var_alpha,           \* self.var_alpha
    resultados,          \* self.resultados
    instancias_pruebas,  \* self.instancias_pruebas
    botones,             \* the state of each button
    devueltos,           \* what each test's own ejecutar() returned in the last run
    corrida,             \* the last run of the selected tests: what was selected,
                         \* how often each test's ejecutar() returned, whether
                         \* anything raised, the self.datos it ran on
    pdf,                 \* what the last generar_pdf wrote
    acciones             \* how many times the user has acted on the window

vars_shell ==
    <<importados, datos, archivo_cargado, seleccion, var_alpha, resultados,
      instancias_pruebas, botones, devueltos, corrida, pdf, acciones>>

vars == <<vars_nucleo, vars_shell>>

\* the check boxes, in the order ejecutar_pruebas reads them
Casillas ==
    {"var_chi", "var_ks", "var_rachas_asc", "var_rachas_enc", "var_long_asc",
     "var_long_enc"}

BotonesDetalle ==
    {"btn_detalle_chi", "btn_detalle_ks", "btn_detalle_rachas_asc",
     "btn_detalle_rachas_enc", "btn_detalle_long_asc", "btn_detalle_long_enc"}

Botones == BotonesDetalle \cup {"btn_ver_datos", "btn_ejecutar", "btn_generar_pdf"}

\* the key of self.resultados and self.instancias_pruebas that belongs to a
\* check box
ClaveDe(casilla) ==
    CASE casilla = "var_chi" -> "chi_cuadrado"
      [] casilla = "var_ks" -> "kolmogorov_smornov"
      [] casilla = "var_rachas_asc" -> "rachas_ascendentes_decendentes"
      [] casilla = "var_rachas_enc" -> "rachas_encima_debajo"
      [] casilla = "var_long_asc" -> "longitud_rachas_ascendentes_descendentes"
      [] casilla = "var_long_enc" -> "longitud_rachas_enc"

Claves == {ClaveDe(c) : c \in Casillas}

SinCorrida ==
    [hecha |-> FALSE, seleccion |-> [c \in Casillas |-> FALSE],
     ejecuciones |-> [k \in Claves |-> 0], lanzo |-> FALSE, datos |-> <<>>]

\* __init__ and crear_interfaz: the window after construction
ShellNuevo ==
    /\ datos = <<>>
    /\ archivo_cargado = FALSE
    /\ seleccion = [c \in Casillas |-> FALSE]
    /\ var_alpha = 50
    /\ resultados = <<>>
    /\ instancias_pruebas = <<>>
    /\ botones = [b \in Botones |-> "disabled"]
    /\ devueltos = <<>>
    /\ corrida = SinCorrida
    /\ pdf = "ninguno"
    /\ acciones = 0

\* 0.1, 0.9, 0.1, 0.9, ... of length n
Alternante(n) == [i \in 1..n |-> IF i % 2 = 1 THEN 1 ELSE 9]

Muestras ==
    UNION {[1..n -> Valores] : n \in 0..MaxLen}
        \cup {Alternante(2 * k) : k \in 1..AltPares}

Modulos == {"prueba_rachas_enc_deb", "rachas_encima_debajo"}

Init ==
    /\ modulo \in Modulos
    /\ muestra \in Muestras
    /\ nivel \in Alphas
    /\ pred_ok = FALSE
    /\ pred = PredNuevo(<<>>, 0)
    /\ pred_rets = <<>>
    /\ pred_obtenido = ""
    /\ red_ok = FALSE
    /\ red = RedNuevo(<<>>, 0).obj
    /\ red_exc = ""
    /\ red_rets = <<>>
    /\ red_vista = ""
    /\ llamadas = 0
    /\ importados = 0
    /\ ShellNuevo

\* prueba = RachasEncimaDebajo(datos, alpha) of prueba_rachas_enc_deb
ConstruirPred ==
    /\ modulo = "prueba_rachas_enc_deb"
    /\ pred_ok' = TRUE
    /\ pred' = PredNuevo(muestra, nivel)
    /\ muestra' = pred'.datos
    /\ pred_obtenido' = ""
    /\ llamadas' = 0
    /\ UNCHANGED vars_shell
    /\ UNCHANGED <<modulo, nivel, pred_rets, red_ok, red, red_exc, red_rets,
                   red_vista>>

\* prueba.ejecutar() of prueba_rachas_enc_deb
LlamarPredEjecutar ==
    /\ pred_ok
    /\ Len(pred_rets) < MaxLlamadas
    /\ LET r == PredEjecutar(pred)
       IN  /\ pred' = r.obj
           /\ pred_rets' = Append(pred_rets, r.ret)
    /\ muestra' = pred'.datos
    /\ llamadas' = llamadas + 1
    /\ UNCHANGED vars_shell
    /\ UNCHANGED <<modulo, nivel, pred_ok, pred_obtenido, red_ok, red, red_exc,
                   red_rets, red_vista>>

\* the accessors of prueba_rachas_enc_deb, which return self.tabla,
\* self.grupos and self.simbolos
Accesores ==
    {"obtener_tabla_detallada", "obtener_grupos_detallados", "obtener_simbolos"}

\* prueba.obtener_...() of prueba_rachas_enc_deb
LlamarPredObtener ==
    /\ pred_ok
    /\ \E a \in Accesores : pred_obtenido' = a
    /\ muestra' = pred.datos
    /\ UNCHANGED vars_shell
    /\ UNCHANGED <<modulo, nivel, pred_ok, pred, pred_rets, red_ok, red, red_exc,
                   red_rets, red_vista, llamadas>>

\* prueba = RachasEncimaDebajo(datos, alpha) of rachas_encima_debajo
ConstruirRed ==
    /\ modulo = "rachas_encima_debajo"
    /\ LET r == RedNuevo(muestra, nivel)
       IN  /\ red_exc' = r.exc
           /\ IF r.exc = ""
              THEN red_ok' = TRUE /\ red' = r.obj /\ llamadas' = 0
              ELSE UNCHANGED <<red_ok, red, llamadas>>
    /\ UNCHANGED vars_shell
    /\ UNCHANGED <<modulo, muestra, nivel, pred_ok, pred, pred_rets, pred_obtenido,
                   red_rets, red_vista>>

\* prueba.ejecutar() of rachas_encima_debajo
LlamarRedEjecutar ==
    /\ red_ok
    /\ Len(red_rets) < MaxLlamadas
    /\ red_rets' = Append(red_rets, RedEjecutar(red))
    /\ llamadas' = llamadas + 1
    /\ UNCHANGED vars_shell
    /\ UNCHANGED <<modulo, muestra, nivel, pred_ok, pred, pred_rets, pred_obtenido,
                   red_ok, red, red_exc, red_vista>>

\* prueba.mostrar_tabla_detallada(): runs ejecutar() again and shows an error
\* box or the detail window
mostrar_tabla_detallada ==
    /\ red_ok
    /\ Len(red_rets) < MaxLlamadas
    /\ LET resultado == RedEjecutar(red)
       IN  /\ red_rets' = Append(red_rets, resultado)
           /\ red_vista' = IF "error" \in DOMAIN resultado
                           THEN "showerror" ELSE "ventana"
    /\ llamadas' = llamadas + 1
    /\ UNCHANGED vars_shell
    /\ UNCHANGED <<modulo, muestra, nivel, pred_ok, pred, pred_rets, pred_obtenido,
                   red_ok, red, red_exc>>

Next ==
    \/ ConstruirPred
    \/ LlamarPredEjecutar
    \/ LlamarPredObtener
    \/ ConstruirRed
    \/ LlamarRedEjecutar
    \/ mostrar_tabla_detallada

Spec == Init /\ [][Next]_vars

\* ---------------------------------------------------------------------
\* main.py : the window InterfazPrincipal
\*
\* main.py imports RachasEncimaDebajo from rachas_encima_debajo.  The
\* other four test classes come from modules that are not part of the
\* sources at hand; what their ejecutar() gives back is drawn from
\* Comportamientos.  var_alpha is in thousandths, datos in tenths.
\* ---------------------------------------------------------------------

\* the names the import block binds, in the order of its statements: the
\* first import that fails leaves every later name undefined
Importables ==
    <<"PruebaChi", "PruebaKS", "RachasEncimaDebajo", "LongitudRachasEncimaDebajo",
      "LongitudRachasAscendenteDescendente">>

Definida(nombre) ==
    \E i \in 1..Len(Importables) : Importables[i] = nombre /\ i <= importados

\* the test classes whose modules are not at hand
Externas ==
    {"PruebaChi", "PruebaKS", "LongitudRachasEncimaDebajo",
     "LongitudRachasAscendenteDescendente"}

\* what ejecutar() of such a class does: gives a complete result that keeps
\* or rejects H0, gives a failure record, or raises
Comportamientos == {"no_rechaza", "rechaza", "error", "excepcion"}

\* first numeric column of a readable file, after dropna(): a column of
\* NaN only leaves no value at all
Columnas == {<<>>, <<1, 1, 1>>, <<1, 9, 1, 9>>}

\* what the user may type in the significance level entry
AlphasShell == {10, 50}

\* the result a test class of a module not at hand returns
EjecutarExterna(tipo, comportamiento, alpha) ==
    IF comportamiento = "error"
    THEN [error |-> "entrada degenerada"]
    ELSE [estadistico |-> Raiz(<<1, 1>>),
          valor_critico |-> Finito(1, <<4, 1>>),
          p_valor |-> 500,
          rechaza_h0 |-> (comportamiento = "rechaza"),
          tipo_prueba |-> tipo,
          alpha |-> alpha]

\* the literal the Kolmogorov-Smirnov block builds when PruebaKS is undefined:
\* 0.123, 0.135 (kept as their squares) and 0.25
ResultadoDummyKS(alpha) ==
    [estadistico |-> Raiz(<<15129, 1000000>>),
     valor_critico |-> Finito(1, <<18225, 1000000>>),
     p_valor |-> 250,
     rechaza_h0 |-> FALSE,
     tipo_prueba |-> "Kolmogorov-Smirnov",
     alpha |-> alpha]

Instancia(clase, obj) == [clase |-> clase, obj |-> obj]
None == Instancia("None", <<>>)

\* d[k] = v on a dict
Poner(d, k, v) == (k :> v) @@ d

\* mostrar_resultado(nombre, resultado) returns, or raises KeyError at
\* resultado['rechaza_h0']
mostrar_resultado(resultado) == "rechaza_h0" \in DOMAIN resultado

\* what ejecutar_pruebas has done so far: the dicts and buttons it writes,
\* and whether an exception is on its way to the outer except
Guardar(e, clave, resultado, instancia) ==
    [e EXCEPT !.resultados = Poner(@, clave, resultado),
              !.instancias_pruebas = Poner(@, clave, instancia)]

Habilitar(e, boton) == [e EXCEPT !.botones = [@ EXCEPT ![boton] = "normal"]]

\* ejecutar() of the test stored under clave has returned resultado
Devuelve(e, clave, resultado) ==
    [e EXCEPT !.devueltos = Poner(@, clave, resultado),
              !.ejecuciones = [@ EXCEPT ![clave] = @ + 1]]

\* an exception leaves the block for the outer except
Lanza(e) == [e EXCEPT !.excepcion = TRUE, !.lanzo = TRUE]

\* an exception is caught inside the block
Atrapa(e) == [e EXCEPT !.lanzo = TRUE]

\* if self.var_chi.get(): ...
BloqueChi(e, c, alpha) ==
    IF e.excepcion \/ ~seleccion["var_chi"] THEN e
    ELSE IF ~Definida("PruebaChi") \/ c = "excepcion" THEN Lanza(e)
    ELSE LET resultado_chi == EjecutarExterna("Chi Cuadrado", c, alpha)
             e1 == Guardar(Devuelve(e, "chi_cuadrado", resultado_chi),
                           "chi_cuadrado", resultado_chi, Instancia("PruebaChi", <<>>))
         IN  IF mostrar_resultado(resultado_chi)
             THEN Habilitar(e1, "btn_detalle_chi")
             ELSE Lanza(e1)

\* the Longitud Rachas Asc/Desc block, which catches every exception itself
BloqueLongAsc(e, c, alpha) ==
    IF e.excepcion \/ ~seleccion["var_long_asc"] THEN e
    ELSE IF ~Definida("LongitudRachasAscendenteDescendente") \/ c = "excepcion"
    THEN Atrapa(e)
    ELSE LET resultado_long_asc ==
                 EjecutarExterna("Longitud Rachas Asc/Desc", c, alpha)
             e1 == Guardar(Devuelve(e, "longitud_rachas_ascendentes_descendentes",
                                    resultado_long_asc),
                           "longitud_rachas_ascendentes_descendentes",
                           resultado_long_asc,
                           Instancia("LongitudRachasAscendenteDescendente", <<>>))
         IN  IF mostrar_resultado(resultado_long_asc)
             THEN Habilitar(e1, "btn_detalle_long_asc")
             ELSE Atrapa(e1)

\* if self.var_rachas_enc.get(): ...
BloqueRachasEnc(e, alpha) ==
    IF e.excepcion \/ ~seleccion["var_rachas_enc"] THEN e
    ELSE IF ~Definida("RachasEncimaDebajo") THEN Lanza(e)
    ELSE LET prueba_renc == RedNuevo(datos, alpha)
         IN  IF prueba_renc.exc # "" THEN Lanza(e)
             ELSE LET resultado_renc == RedEjecutar(prueba_renc.obj)
                      e1 == Guardar(Devuelve(e, "rachas_encima_debajo", resultado_renc),
                                    "rachas_encima_debajo", resultado_renc,
                                    Instancia("RachasEncimaDebajo", prueba_renc.obj))
                  IN  IF mostrar_resultado(resultado_renc)
                      THEN Habilitar(e1, "btn_detalle_rachas_enc")
                      ELSE Lanza(e1)

\* if self.var_ks.get(): ... with the two blocks indented under it
BloqueKS(e, ext, alpha) ==
    IF e.excepcion \/ ~seleccion["var_ks"] THEN e
    ELSE IF Definida("PruebaKS") /\ ext["PruebaKS"] = "excepcion" THEN Lanza(e)
    ELSE LET resultado_ks ==
                 IF Definida("PruebaKS")
                 THEN EjecutarExterna("Kolmogorov-Smirnov", ext["PruebaKS"], alpha)
                 ELSE ResultadoDummyKS(alpha)
             e0 == IF Definida("PruebaKS")
                   THEN Devuelve(e, "kolmogorov_smornov", resultado_ks)
                   ELSE Atrapa(e)
             e1 == Guardar(e0, "kolmogorov_smornov", resultado_ks,
                           IF Definida("PruebaKS")
                           THEN Instancia("PruebaKS", <<>>) ELSE None)
             e2 == IF ~mostrar_resultado(resultado_ks) THEN Lanza(e1)
                   ELSE IF Definida("PruebaKS") THEN Habilitar(e1, "btn_detalle_ks")
                   ELSE e1
             e3 == BloqueLongAsc(e2, ext["LongitudRachasAscendenteDescendente"], alpha)
         IN  BloqueRachasEnc(e3, alpha)

\* if self.var_long_enc.get(): ...
BloqueLongEnc(e, c, alpha) ==
    IF e.excepcion \/ ~seleccion["var_long_enc"] THEN e
    ELSE IF ~Definida("LongitudRachasEncimaDebajo") \/ c = "excepcion" THEN Lanza(e)
    ELSE LET resultado_long_enc ==
                 EjecutarExterna("Longitud Rachas Encima/Debajo", c, alpha)
             e1 == Guardar(Devuelve(e, "longitud_rachas_enc", resultado_long_enc),
                           "longitud_rachas_enc", resultado_long_enc,
                           Instancia("LongitudRachasEncimaDebajo", <<>>))
         IN  IF mostrar_resultado(resultado_long_enc)
             THEN Habilitar(e1, "btn_detalle_long_enc")
             ELSE Lanza(e1)

\* the try block of ejecutar_pruebas, from the cleared dicts to the PDF button
EjecutarSeleccion(ext, alpha) ==
    LET e0 == [resultados |-> <<>>,
               instancias_pruebas |-> <<>>,
               botones |-> [b \in Botones |->
                               IF b \in BotonesDetalle THEN "disabled" ELSE botones[b]],
               devueltos |-> <<>>,
               ejecuciones |-> [k \in Claves |-> 0],
               lanzo |-> FALSE,
               excepcion |-> FALSE]
        e1 == BloqueChi(e0, ext["PruebaChi"], alpha)
        e2 == BloqueKS(e1, ext, alpha)
        e3 == BloqueLongAsc(e2, ext["LongitudRachasAscendenteDescendente"], alpha)
        e4 == BloqueLongEnc(e3, ext["LongitudRachasEncimaDebajo"], alpha)
    IN  IF e4.excepcion THEN e4 ELSE Habilitar(e4, "btn_generar_pdf")

InitShell ==
    /\ modulo = "rachas_encima_debajo"
    /\ muestra = <<>>
    /\ nivel = 50
    /\ pred_ok = FALSE
    /\ pred = PredNuevo(<<>>, 0)
    /\ pred_rets = <<>>
    /\ pred_obtenido = ""
    /\ red_ok = FALSE
    /\ red = RedNuevo(<<>>, 0).obj
    /\ red_exc = ""
    /\ red_rets = <<>>
    /\ red_vista = ""
    /\ llamadas = 0
    /\ importados \in 0..Len(Importables)
    /\ ShellNuevo

Fijos == <<vars_nucleo, importados>>

\* one more action of the user
Accion ==
    /\ acciones < MaxAcciones
    /\ acciones' = acciones + 1

\* the "Cargar archivo" button
cargar_archivo ==
    /\ Accion
    /\ \/ \E motivo \in {"cancelado", "ilegible", "vacio", "sin_columna_numerica"} :
            UNCHANGED <<datos, archivo_cargado, botones>>
       \/ \E columna \in Columnas :
            /\ datos' = columna
            /\ archivo_cargado' = TRUE
            /\ botones' =
                 [b \in Botones |->
                    IF b \in {"btn_ver_datos", "btn_ejecutar"} THEN "normal"
                    ELSE IF b \in BotonesDetalle /\ columna # <<>> THEN "disabled"
                    ELSE botones[b]]
    /\ UNCHANGED <<Fijos, seleccion, var_alpha, resultados, instancias_pruebas,
                   devueltos, corrida, pdf>>

\* a click on one of the six check boxes
Marcar ==
    /\ Accion
    /\ \E c \in Casillas : seleccion' = [seleccion EXCEPT ![c] = ~@]
    /\ UNCHANGED <<Fijos, datos, archivo_cargado, var_alpha, resultados,
                   instancias_pruebas, botones, devueltos, corrida, pdf>>

\* typing a significance level
EscribirAlpha ==
    /\ Accion
    /\ \E a \in AlphasShell : var_alpha' = a
    /\ UNCHANGED <<Fijos, datos, archivo_cargado, seleccion, resultados,
                   instancias_pruebas, botones, devueltos, corrida, pdf>>

\* the "Ver datos" button
ver_datos ==
    /\ Accion
    /\ botones["btn_ver_datos"] = "normal"
    /\ UNCHANGED <<Fijos, datos, archivo_cargado, seleccion, var_alpha, resultados,
                   instancias_pruebas, botones, devueltos, corrida, pdf>>

\* the check box that makes ejecutar_pruebas call a class
Casilla(clase) ==
    CASE clase = "PruebaChi" -> "var_chi"
      [] clase = "PruebaKS" -> "var_ks"
      [] clase = "RachasEncimaDebajo" -> "var_rachas_enc"
      [] clase = "LongitudRachasEncimaDebajo" -> "var_long_enc"
      [] clase = "LongitudRachasAscendenteDescendente" -> "var_long_asc"

\* a class whose behaviour can matter to this run: it is bound and selected
Llamada(clase) == Definida(clase) /\ seleccion[Casilla(clase)]

\* the "Ejecutar pruebas" button
ejecutar_pruebas ==
    /\ Accion
    /\ botones["btn_ejecutar"] = "normal"
    /\ IF ~archivo_cargado \/ ~(\E c \in Casillas : seleccion[c])
       THEN UNCHANGED <<resultados, instancias_pruebas, botones, devueltos, corrida>>
       ELSE \E ext \in [Externas -> Comportamientos] :
              LET e == EjecutarSeleccion(ext, var_alpha)
              IN  /\ \A x \in Externas : ~Llamada(x) => ext[x] = "no_rechaza"
                  /\ resultados' = e.resultados
                  /\ instancias_pruebas' = e.instancias_pruebas
                  /\ botones' = e.botones
                  /\ devueltos' = e.devueltos
                  /\ corrida' = [hecha |-> TRUE, seleccion |-> seleccion,
                                 ejecuciones |-> e.ejecuciones, lanzo |-> e.lanzo,
                                 datos |-> datos]
    /\ UNCHANGED <<Fijos, datos, archivo_cargado, seleccion, var_alpha, pdf>>

\* the detail button of the runs test above and below the mean
mostrar_detalle_rachas_enc ==
    /\ Accion
    /\ botones["btn_detalle_rachas_enc"] = "normal"
    /\ UNCHANGED <<Fijos, datos, archivo_cargado, seleccion, var_alpha, resultados,
                   instancias_pruebas, botones, devueltos, corrida, pdf>>

\* the "Generar PDF" button
generar_pdf ==
    /\ Accion
    /\ botones["btn_generar_pdf"] = "normal"
    /\ IF DOMAIN resultados = {}
       THEN UNCHANGED pdf
       ELSE \/ UNCHANGED pdf
            \/ pdf' = IF \/ datos = <<>>
                         \/ \E k \in DOMAIN resultados :
                              "rechaza_h0" \notin DOMAIN resultados[k]
                      THEN "error"
                      ELSE "escrito"
    /\ UNCHANGED <<Fijos, datos, archivo_cargado, seleccion, var_alpha, resultados,
                   instancias_pruebas, botones, devueltos, corrida>>

NextShell ==
    \/ cargar_archivo
    \/ Marcar
    \/ EscribirAlpha
    \/ ver_datos
    \/ ejecutar_pruebas
    \/ mostrar_detalle_rachas_enc
    \/ generar_pdf

SpecShell == InitShell /\ [][NextShell]_vars

\* ---------------------------------------------------------------------
\* Properties of the runs tests
\* ---------------------------------------------------------------------
EsPred == modulo = "prueba_rachas_enc_deb"
EsRed == modulo = "rachas_encima_debajo"

\* the significance level lies in the open interval (0, 1)
AlphaValido == 0 < nivel /\ nivel < 1000

\* what ejecutar() of the imported class has returned so far
Devueltos == IF EsPred THEN pred_rets ELSE red_rets

\* a result record: it carries a statistic or a decision
EsResultado(r) ==
    DOMAIN r \cap {"estadistico", "valor_critico", "p_valor", "rechaza_h0"} # {}
\* a failure record
EsFallo(r) == "error" \in DOMAIN r

\* the symbol counts each class computes for the caller's sequence
ConteoPred == _contar_simbolos(_convertir_a_simbolos(PredNuevo(muestra, nivel)))
ConteoRed == RedNuevo(muestra, nivel).obj

\* the sum of the run lengths g[lo][2], ..., g[hi][2]
RECURSIVE SumaLongitudes(_, _, _)
SumaLongitudes(g, lo, hi) ==
    IF lo > hi THEN 0
    ELSE IF lo = hi THEN g[lo][2]
    ELSE SumaLongitudes(g, lo, (lo + hi) \div 2)
             + SumaLongitudes(g, ((lo + hi) \div 2) + 1, hi)

\* the runs g[lo], ..., g[hi] expanded in order, each symbol repeated by its
\* run length
RECURSIVE Expandir(_, _, _)
Expandir(g, lo, hi) ==
    IF lo > hi THEN <<>>
    ELSE IF lo = hi THEN [j \in 1..g[lo][2] |-> g[lo][1]]
    ELSE Expandir(g, lo, (lo + hi) \div 2)
             \o Expandir(g, ((lo + hi) \div 2) + 1, hi)

\* C1 (as claimed): on a sequence with an empty symbol class (n1 = 0 or
\* n2 = 0, which covers n1 + n2 <= 1) and a valid alpha, ejecutar() of either
\* class never returns a result record; whatever it returns is a failure
\* record.
C1_SinResultadoDegenerado ==
    /\ (EsPred /\ AlphaValido /\ (ConteoPred.n1 = 0 \/ ConteoPred.n2 = 0))
          => \A k \in 1..Len(pred_rets) :
                EsFallo(pred_rets[k]) /\ ~EsResultado(pred_rets[k])
    /\ (EsRed /\ AlphaValido /\ (ConteoRed.n1 = 0 \/ ConteoRed.n2 = 0))
          => \A k \in 1..Len(red_rets) :
                EsFallo(red_rets[k]) /\ ~EsResultado(red_rets[k])

\* C2: after _agrupar_simbolos on a non-empty symbol sequence the run
\* lengths in grupos sum to the length of the symbol sequence.
C2_SumaLongitudes ==
    (EsPred /\ pred.simbolos # <<>>)
        => SumaLongitudes(pred.grupos, 1, Len(pred.grupos)) = Len(pred.simbolos)

C2_Witness ==
    /\ EsPred
    /\ Len(pred.simbolos) = MaxLen
    /\ Len(pred.grupos) = 2
    /\ pred.grupos[1][2] >= 2

\* C3: encoding the samples, grouping the symbols and expanding the runs in
\* order gives back the symbol sequence of the samples.
C3_IdaYVuelta ==
    (EsPred /\ llamadas > 0 /\ muestra # <<>>)
        => /\ Len(pred.simbolos) = Len(muestra)
           /\ Expandir(pred.grupos, 1, Len(pred.grupos))
                 = [i \in 1..Len(muestra) |-> SimboloPred(muestra[i])]

C3_Witness ==
    /\ EsPred
    /\ llamadas > 0
    /\ Len(pred.grupos) >= 3
    /\ \E i \in 1..Len(muestra) : muestra[i] = 5

\* C4 (as claimed): in both classes the symbol at i is '+' exactly when
\* sample[i] >= 0.5; a sample equal to 0.5 is encoded '+'.
C4_UmbralNoEstricto ==
    /\ (EsPred /\ llamadas > 0)
          => \A i \in 1..Len(muestra) :
                (pred.simbolos[i] = "+") <=> (muestra[i] >= 5)
    /\ (EsRed /\ red_ok)
          => \A i \in 1..Len(muestra) :
                (red.secuencia[i] = "+") <=> (muestra[i] >= 5)

\* the fields of a returned record r say n1 = n2 = n/2 and n observed runs
InformaAlternante(r, n) ==
    /\ {"n1", "n2"} \subseteq DOMAIN r
    /\ r.n1 = n \div 2
    /\ r.n2 = n \div 2
    /\ IF EsPred
       THEN "B" \in DOMAIN r /\ r.B = n
       ELSE "rachas_observadas" \in DOMAIN r /\ r.rachas_observadas = n

\* the sequence 0.1, 0.9, ... of even length n >= desde: every return reports
\* n1 = n2 = n/2 and n runs, and rejects for n = 100 at alpha = 0.05
AlternanteDesde(desde) ==
    \A n \in desde..Len(muestra) :
        (n = Len(muestra) /\ n % 2 = 0 /\ muestra = Alternante(n))
            => \A k \in 1..Len(Devueltos) :
                  /\ InformaAlternante(Devueltos[k], n)
                  /\ (n = 100 /\ nivel = 50)
                        => ("rechaza_h0" \in DOMAIN Devueltos[k]
                               /\ Devueltos[k].rechaza_h0)

\* C5 (as claimed): for the alternating sequence of any even length n and a
\* valid alpha the test reports n1 = n2 = n/2 and n runs; for n = 100 and alpha = 0.05 it
\* rejects.
C5_Original == AlphaValido => AlternanteDesde(2)

\* C5 (amended): the same for every even length n >= 4.
C5_Alternante == AlternanteDesde(4)

C5_Witness ==
    /\ EsRed
    /\ muestra = Alternante(100)
    /\ nivel = 50
    /\ Len(red_rets) > 0
    /\ red_rets[1].rechaza_h0
    /\ red_rets[1].rachas_observadas = 100

\* C6: on an empty sequence each class fails before any statistic
\* is computed, and the failure reaches the caller as a returned failure
\* record, never as a raised exception.
C6_Original ==
    muestra = <<>>
        => /\ red_exc = ""
           /\ \A k \in 1..Len(Devueltos) :
                 EsFallo(Devueltos[k]) /\ ~EsResultado(Devueltos[k])

\* what does hold on an empty sequence: ejecutar() of prueba_rachas_enc_deb
\* returns a failure record and leaves mu_B and z_prueba unassigned, and the
\* constructor of rachas_encima_debajo raises ValueError, so that no instance
\* exists and ejecutar() never runs.
VacioFalla ==
    muestra = <<>>
        => /\ \A k \in 1..Len(pred_rets) :
                 EsFallo(pred_rets[k]) /\ ~EsResultado(pred_rets[k])
           /\ pred.mu_B = <<0, 1>> /\ pred.z_prueba = Raiz(<<0, 1>>)
           /\ ~red_ok /\ red_rets = <<>>

\* C7 (as claimed): with alpha outside the open interval (0, 1) building and
\* running a runs test returns no result record (no critical value, no
\* decision).
C7_AlphaValidado ==
    (nivel <= 0 \/ nivel >= 1000)
        => \A k \in 1..Len(Devueltos) : ~EsResultado(Devueltos[k])

\* C8: every entry ejecutar_pruebas stores in resultados is the value that
\* test's own ejecutar() returned in that run; no entry is stored for a test
\* whose class is unavailable or whose execution failed
C8_SinResultadoFabricado ==
    \A clave \in DOMAIN resultados :
        /\ clave \in DOMAIN devueltos
        /\ resultados[clave] = devueltos[clave]

\* the shared fields of a result, with n1 and n2
CamposResultado ==
    {"estadistico", "valor_critico", "p_valor", "rechaza_h0", "tipo_prueba",
     "alpha", "n1", "n2"}

Completo(r) == CamposResultado \subseteq DOMAIN r /\ ~EsFallo(r)
SoloFallo(r) == EsFallo(r) /\ ~EsResultado(r)

\* C9: every value ejecutar() returns, in either class, is a complete result
\* (all shared fields, n1, n2, no error field) or a failure record (an error
\* field and none of estadistico, valor_critico, p_valor, rechaza_h0).
C9_DosFormas ==
    \A k \in 1..Len(Devueltos) :
        Completo(Devueltos[k]) \/ SoloFallo(Devueltos[k])

C9_Witness ==
    /\ EsPred
    /\ Len(pred_rets) > 0
    /\ Completo(pred_rets[1])
    /\ pred_rets[1].n1 >= 1
    /\ pred_rets[1].n2 >= 2

\* C10: every call of ejecutar() on the same sequence and alpha returns the
\* same value, on the same instance or on a fresh one, whatever the previous
\* call left in the instance.
C10_MismoResultado ==
    \A j, k \in 1..Len(Devueltos) : Devueltos[j] = Devueltos[k]

C10_Witness ==
    /\ EsPred
    /\ llamadas = 2
    /\ Len(pred_rets) = 2
    /\ pred.B >= 2

\* C11: every result a runs test returns has a statistic z >= 0, carries as
\* valor_critico the quantile norm.ppf(1 - alpha/2) of the caller's alpha, and
\* has rechaza_h0 true exactly when z > valor_critico: for a finite quantile
\* c >= 0 exactly when c*c < z*z, so that z = c does not reject.
C11_Decision ==
    \A k \in 1..Len(Devueltos) :
        LET r == Devueltos[k]
        IN  EsResultado(r) =>
              /\ r.estadistico.radicando[1] >= 0
              /\ r.estadistico.radicando[2] > 0
              /\ r.valor_critico = NormPpf(nivel)
              /\ AlphaValido =>
                    /\ r.valor_critico.clase = "finito"
                    /\ r.valor_critico.signo = 1
              /\ (r.valor_critico.clase = "finito" /\ r.valor_critico.signo = 1)
                    => (r.rechaza_h0 <=>
                          QMenor(r.valor_critico.cuadrado, r.estadistico.radicando))
              /\ (r.valor_critico.clase = "finito" /\ r.valor_critico.signo = 1
                     /\ r.valor_critico.cuadrado = r.estadistico.radicando)
                    => ~r.rechaza_h0

C11_Witness ==
    /\ EsPred
    /\ nivel = 10
    /\ Len(pred_rets) > 0
    /\ EsResultado(pred_rets[1])
    /\ pred_rets[1].rechaza_h0
    /\ pred_rets[1].estadistico.radicando[1] > 0

\* the expected run count 2*n1*n2/(n1 + n2) + 1, as the pair numerator,
\* denominator of a fraction that need not be in lowest terms
MediaEsperada(n1, n2) == <<2 * n1 * n2 + (n1 + n2), n1 + n2>>

\* the variance 2*n1*n2*(2*n1*n2 - n1 - n2) / ((n1 + n2)^2 * (n1 + n2 - 1))
VarianzaEsperada(n1, n2) ==
    <<2 * n1 * n2 * (2 * n1 * n2 - n1 - n2),
      (n1 + n2) * (n1 + n2) * (n1 + n2 - 1)>>

\* the rational q in lowest terms equals the fraction f[1]/f[2]
MismaFraccion(q, f) == q[1] * (f[2] \div Gcd(Abs(f[1]), f[2])) = q[2] * (f[1] \div Gcd(Abs(f[1]), f[2]))

\* the record r reports the expected run count mu, the deviation sqrt(var)
\* and a statistic z with z*z*var = (B - mu)^2 for its observed run count B
InformaFormulas(r) ==
    LET B == IF EsPred THEN r.B ELSE r.rachas_observadas
        mu == IF EsPred THEN r.mu_B ELSE r.rachas_esperadas
        sigma == IF EsPred THEN r.sigma_B ELSE r.desviacion_estandar
        var == sigma.radicando
        f == MediaEsperada(r.n1, r.n2)
        \* (B - mu) as a fraction over n1 + n2
        d == Frac(B * f[2] - f[1], f[2])
    IN  /\ MismaFraccion(mu, f)
        /\ MismaFraccion(var, VarianzaEsperada(r.n1, r.n2))
        /\ var[1] > 0 =>
              QMul(r.estadistico.radicando, var) = QMul(d, d)

\* every value returned for a sequence with at least desde samples and both
\* symbols present is a result that reports the formulas
FormulasDesde(desde) ==
    LET c == IF EsPred THEN ConteoPred ELSE ConteoRed
    IN  (c.n1 >= 1 /\ c.n2 >= 1 /\ c.n1 + c.n2 >= desde)
            => \A k \in 1..Len(Devueltos) :
                  /\ EsResultado(Devueltos[k])
                  /\ Devueltos[k].n1 = c.n1
                  /\ Devueltos[k].n2 = c.n2
                  /\ InformaFormulas(Devueltos[k])

\* C12 (as claimed): for every input with n1 >= 1, n2 >= 1 and n1 + n2 >= 2
\* the test reports mu_B = 2*n1*n2/(n1+n2) + 1, the variance of the formula
\* and z = |B - mu_B| / sqrt(variance).
C12_Original == AlphaValido => FormulasDesde(2)

\* C12 (amended): the same for n1 >= 1, n2 >= 1 and n1 + n2 >= 3, where the
\* variance is positive.
C12_Formulas == FormulasDesde(3)

C12_Witness ==
    /\ EsRed
    /\ Len(red_rets) > 0
    /\ EsResultado(red_rets[1])
    /\ red_rets[1].n1 = 1
    /\ red_rets[1].n2 = 3
    /\ red_rets[1].rachas_observadas = 3

\* C13: in a run of ejecutar_pruebas in which nothing raises, ejecutar() of
\* every test whose check box is selected returns exactly once and its result
\* is stored under the test's key, and no unselected test is executed,
\* whatever the other check boxes say.
C13_Independientes ==
    (corrida.hecha /\ ~corrida.lanzo)
        => \A c \in Casillas :
              IF corrida.seleccion[c]
              THEN /\ corrida.ejecuciones[ClaveDe(c)] = 1
                   /\ ClaveDe(c) \in DOMAIN resultados
              ELSE /\ corrida.ejecuciones[ClaveDe(c)] = 0
                   /\ ClaveDe(c) \notin DOMAIN resultados

\* C14: no step of a runs test (construction, ejecutar(), the accessors, the
\* detail window) changes the caller's sample sequence: it keeps the same
\* elements in the same order.
C14_SoloLectura == [][muestra' = muestra]_vars

C14_Witness ==
    /\ EsPred
    /\ llamadas > 0
    /\ pred_obtenido = "obtener_simbolos"
    /\ pred.datos = muestra
    /\ \E i \in 1..Len(muestra) : muestra[i] = 5

\* every symbol of s is the same
Uniforme(s) == \A i \in 1..Len(s) : s[i] = s[1]

\* C15: on a symbol sequence of m >= 1 identical symbols (m = 1 included)
\* _agrupar_simbolos leaves exactly one run, of that symbol and of length m,
\* with B = 1, and _contar_rachas returns 1.
C15_UnaRacha ==
    /\ (EsPred /\ llamadas > 0 /\ pred.simbolos # <<>> /\ Uniforme(pred.simbolos))
          => /\ pred.grupos = <<<<pred.simbolos[1], Len(pred.simbolos)>>>>
             /\ pred.B = 1
    /\ (EsRed /\ red_ok /\ Uniforme(red.secuencia))
          => _contar_rachas(red) = 1

C15_Witness ==
    /\ EsRed
    /\ red_ok
    /\ Len(red_rets) > 0
    /\ Len(red.secuencia) = MaxLen
    /\ Uniforme(red.secuencia)

\* C16: in both classes the symbol sequence is as long as the sample sequence
\* and every sample is counted in exactly one class, n1 + n2 = n.
C16_Conteo ==
    /\ (EsPred /\ llamadas > 0)
          => /\ Len(pred.simbolos) = Len(muestra)
             /\ pred.n1 + pred.n2 = Len(muestra)
    /\ (EsRed /\ red_ok)
          => /\ Len(red.secuencia) = Len(muestra)
             /\ red.n1 + red.n2 = Len(muestra)
             /\ red.N = Len(muestra)

C16_Witness ==
    /\ EsPred
    /\ llamadas > 0
    /\ Len(muestra) = MaxLen
    /\ pred.n1 = 1
    /\ muestra[MaxLen] = 5

\* C17: the runs _agrupar_simbolos builds are maximal: every run has length
\* >= 1, two consecutive runs carry different symbols, the first run carries
\* the first symbol, and B is the number of entries of grupos.
C17_RachasMaximas ==
    (EsPred /\ llamadas > 0)
        => /\ \A k \in 1..Len(pred.grupos) : pred.grupos[k][2] >= 1
           /\ \A k \in 1..(Len(pred.grupos) - 1) :
                 pred.grupos[k][1] # pred.grupos[k + 1][1]
           /\ pred.B = Len(pred.grupos)
           /\ pred.simbolos # <<>> => pred.grupos[1][1] = pred.simbolos[1]

C17_Witness ==
    /\ EsPred
    /\ llamadas > 0
    /\ Len(pred.grupos) = 3
    /\ pred.grupos[2][2] = 2
    /\ pred.B = 3

\* 1 plus the number of positions whose symbol differs from the one before
UnoMasCambios(s) == 1 + Cardinality({i \in 2..Len(s) : s[i] # s[i - 1]})

\* C18: on one non-empty symbol sequence the number of groups B that
\* _agrupar_simbolos builds equals the value of _contar_rachas, and both are
\* 1 plus the number of positions i with symbol[i] # symbol[i-1].
C18_MismoConteo ==
    /\ (EsPred /\ llamadas > 0 /\ pred.simbolos # <<>>)
          => /\ pred.B = UnoMasCambios(pred.simbolos)
             /\ pred.B = _contar_rachas([secuencia |-> pred.simbolos])
    /\ (EsRed /\ red_ok)
          => /\ _contar_rachas(red) = UnoMasCambios(red.secuencia)
             /\ _contar_rachas(red) = Agrupar(red.secuencia, 0).B
             /\ \A k \in 1..Len(red_rets) :
                   "rachas_observadas" \in DOMAIN red_rets[k]
                      => red_rets[k].rachas_observadas = Agrupar(red.secuencia, 0).B

C18_Witness ==
    /\ EsPred
    /\ llamadas > 0
    /\ Len(pred.simbolos) = MaxLen
    /\ pred.B = 3
    /\ _contar_rachas([secuencia |-> pred.simbolos]) = 3

\* what rachas_encima_debajo builds from the caller's sequence
OtraRed == RedNuevo(muestra, nivel).obj
\* what prueba_rachas_enc_deb holds after ejecutar() on the caller's sequence
OtraPred == PredEjecutar(PredNuevo(muestra, nivel)).obj

\* the two classes agree on symbols, n1, n2 and observed run count
Coinciden(p, r) ==
    /\ p.simbolos = r.secuencia
    /\ p.n1 = r.n1
    /\ p.n2 = r.n2
    /\ p.B = _contar_rachas(r)

\* the symbols of the two classes differ exactly at the samples equal to 0.5,
\* where prueba_rachas_enc_deb has '+' and rachas_encima_debajo '-'
DifierenEnUmbral(p, r) ==
    \A i \in 1..Len(muestra) :
        IF muestra[i] = 5
        THEN p.simbolos[i] = "+" /\ r.secuencia[i] = "-"
        ELSE p.simbolos[i] = r.secuencia[i]

\* C19: on a non-empty input without a sample equal to 0.5 the two classes
\* produce the same symbol sequence, the same n1 and n2 and the same observed
\* run count; at every sample equal to 0.5 the symbol is '+' in
\* prueba_rachas_enc_deb and '-' in rachas_encima_debajo.
C19_SoloElUmbral ==
    /\ (EsPred /\ llamadas > 0 /\ muestra # <<>>)
          => /\ DifierenEnUmbral(pred, OtraRed)
             /\ (\A i \in 1..Len(muestra) : muestra[i] # 5)
                   => Coinciden(pred, OtraRed)
    /\ (EsRed /\ red_ok)
          => /\ DifierenEnUmbral(OtraPred, red)
             /\ (\A i \in 1..Len(muestra) : muestra[i] # 5)
                   => Coinciden(OtraPred, red)

C19_Witness ==
    /\ EsRed
    /\ red_ok
    /\ Len(red_rets) > 0
    /\ Len(muestra) = 3
    /\ muestra[2] = 5
    /\ red.secuencia[2] = "-"
    /\ OtraPred.simbolos[2] = "+"

\* the sum of t.TOTAL[k] over the rows 1..k of the table t, and the sum of
\* t.LONGITUD[k] * t.TOTAL[k]
RECURSIVE SumaTotal(_, _)
SumaTotal(t, k) == IF k = 0 THEN 0 ELSE SumaTotal(t, k - 1) + t.TOTAL[k]

RECURSIVE SumaPonderada(_, _)
SumaPonderada(t, k) ==
    IF k = 0 THEN 0 ELSE SumaPonderada(t, k - 1) + t.LONGITUD[k] * t.TOTAL[k]

\* C20: after ejecutar() on a non-empty input the table has one row per
\* distinct run length of grupos, in strictly increasing order of length,
\* every count is >= 1 and is the number of runs of that length, the counts
\* sum to B, and the lengths weighted by their counts sum to n.
C20_TablaCoherente ==
    (EsPred /\ llamadas > 0 /\ muestra # <<>>)
        => LET t == pred.tabla
               filas == Len(t.LONGITUD)
           IN  /\ t.definida
               /\ Len(t.TOTAL) = filas
               /\ {t.LONGITUD[k] : k \in 1..filas}
                     = {pred.grupos[j][2] : j \in 1..Len(pred.grupos)}
               /\ \A k \in 1..(filas - 1) : t.LONGITUD[k] < t.LONGITUD[k + 1]
               /\ \A k \in 1..filas :
                     /\ t.TOTAL[k] >= 1
                     /\ t.TOTAL[k] = Cardinality({j \in 1..Len(pred.grupos) :
                                                    pred.grupos[j][2] = t.LONGITUD[k]})
               /\ SumaTotal(t, filas) = pred.B
               /\ SumaPonderada(t, filas) = Len(muestra)

C20_Witness ==
    /\ EsPred
    /\ llamadas > 0
    /\ Len(muestra) = MaxLen
    /\ Len(pred.tabla.LONGITUD) = 2
    /\ pred.tabla.LONGITUD[1] = 1
    /\ pred.tabla.TOTAL[1] = 2
    /\ pred.grupos[1][2] = 2

\* the symbols of rachas_encima_debajo for the whole of the caller's sequence
SecuenciaCompleta == [i \in 1..Len(muestra) |-> IF muestra[i] > 5 THEN "+" ELSE "-"]

\* C21: the 'secuencia' field of a result holds the first min(n, 50) symbols
\* of the sequence in order, followed by '...' exactly when the sequence has
\* more than 50 symbols; n1, n2 and the observed run count of the same result
\* are those of the full sequence.
C21_VistaPrevia ==
    (EsRed /\ red_ok)
        => \A k \in 1..Len(red_rets) :
              "secuencia" \in DOMAIN red_rets[k]
                 => LET r == red_rets[k]
                        n == Len(muestra)
                        m == IF n < 50 THEN n ELSE 50
                    IN  /\ Len(r.secuencia) = (IF n > 50 THEN m + 3 ELSE m)
                        /\ \A i \in 1..m : r.secuencia[i] = SecuenciaCompleta[i]
                        /\ \A i \in (m + 1)..Len(r.secuencia) : r.secuencia[i] = "."
                        /\ r.n_total = n
                        /\ r.n1 = Contar(SecuenciaCompleta, "+")
                        /\ r.n2 = Contar(SecuenciaCompleta, "-")
                        /\ r.rachas_observadas = UnoMasCambios(SecuenciaCompleta)

C21_Witness ==
    /\ EsRed
    /\ red_ok
    /\ Len(muestra) = 52
    /\ Len(red_rets) > 0
    /\ "secuencia" \in DOMAIN red_rets[1]
    /\ Len(red_rets[1].secuencia) = 53
    /\ red_rets[1].secuencia[50] = "+"
    /\ red_rets[1].secuencia[51] = "."
    /\ red_rets[1].n1 = 26
    /\ red_rets[1].rachas_observadas = 52

\* ---------------------------------------------------------------------
\* Properties of the window
\* ---------------------------------------------------------------------
PdfHabilitado == botones["btn_generar_pdf"] = "normal"

\* a stored entry that can be exported: a result with its decision and no
\* error record
Exportable(r) == "rechaza_h0" \in DOMAIN r /\ "error" \notin DOMAIN r

\* C22 (as claimed): whenever the 'Generar PDF' button is enabled, resultados
\* is non-empty and every entry of it is a complete result carrying a
\* rechaza_h0 decision.
C22_PdfConResultados ==
    PdfHabilitado
        => /\ DOMAIN resultados # {}
           /\ \A k \in DOMAIN resultados : Exportable(resultados[k])

\* C23 (as claimed): whenever the 'Generar PDF' button is enabled, the stored
\* resultados were computed by the last run of ejecutar_pruebas and that run
\* read the self.datos that is loaded now.
C23_ResultadosDeLosDatos ==
    (PdfHabilitado /\ DOMAIN resultados # {})
        => /\ corrida.hecha
           /\ corrida.datos = datos

\* C24 (as claimed): a detail button is enabled only if instancias_pruebas
\* holds an instance other than None under the key of its test, stored by the
\* last run of ejecutar_pruebas on the self.datos loaded now; 'Ejecutar
\* Pruebas' is enabled only when a file has been loaded.
BotonDe(casilla) ==
    CASE casilla = "var_chi" -> "btn_detalle_chi"
      [] casilla = "var_ks" -> "btn_detalle_ks"
      [] casilla = "var_rachas_asc" -> "btn_detalle_rachas_asc"
      [] casilla = "var_rachas_enc" -> "btn_detalle_rachas_enc"
      [] casilla = "var_long_asc" -> "btn_detalle_long_asc"
      [] casilla = "var_long_enc" -> "btn_detalle_long_enc"

\* the instance behind every enabled detail button
ConInstancia ==
    \A c \in Casillas :
        botones[BotonDe(c)] = "normal"
            => /\ ClaveDe(c) \in DOMAIN instancias_pruebas
               /\ instancias_pruebas[ClaveDe(c)] # None
               /\ corrida.hecha

\* the instance behind every enabled detail button was built on the data
\* loaded now
DeLosDatosCargados ==
    \A c \in Casillas : botones[BotonDe(c)] = "normal" => corrida.datos = datos

EjecutarTrasCargar == botones["btn_ejecutar"] = "normal" => archivo_cargado

C24_BotonesDeDetalle == ConInstancia /\ DeLosDatosCargados /\ EjecutarTrasCargar

\* the numerator of the variance, 2*n1*n2*(2*n1*n2 - n1 - n2)
Termino(n1, n2) == 2 * n1 * n2 * (2 * n1 * n2 - n1 - n2)

\* one symbol class is empty, or each holds one symbol
Degenerado(n1, n2) == n1 = 0 \/ n2 = 0 \/ (n1 = 1 /\ n2 = 1)

\* for all n1, n2 >= 0 with n1 + n2 >= 2 the numerator is not negative, and
\* it is 0 exactly on the degenerate counts
TerminoNoNegativo ==
    \A n1, n2 \in 0..(MaxLen * MaxLen) :
        n1 + n2 >= 2
            => /\ Termino(n1, n2) >= 0
               /\ (Termino(n1, n2) = 0) <=> Degenerado(n1, n2)

\* prueba_rachas_enc_deb on n1 + n2 >= 2: the square root is defined, every
\* return is a result, and the branch that sets z to 0 (sigma_B = 0) is taken
\* exactly on the degenerate counts
RamaCeroPred ==
    (EsPred /\ llamadas > 0 /\ pred.n1 + pred.n2 >= 2)
        => /\ \A k \in 1..Len(pred_rets) : ~EsFallo(pred_rets[k])
           /\ pred.sigma2_B[1] >= 0
           /\ ~EsNaN(pred.sigma_B)
           /\ (pred.sigma2_B[1] = 0) <=> Degenerado(pred.n1, pred.n2)
           /\ (pred.sigma2_B[1] = 0) => pred.z_prueba = Raiz(<<0, 1>>)

\* the return of rachas_encima_debajo is the error of the branch sigma_R == 0
ErrorDesviacion(r) ==
    EsFallo(r) /\ r.error = "Desviacion estandar igual a cero"

\* the return of rachas_encima_debajo is the error of the guard on n1 and n2
ErrorSinRachas(r) ==
    EsFallo(r) /\ r.error = "No se pueden calcular las rachas"

\* C25 (as claimed): for n1 + n2 >= 2 the variance numerator is >= 0 and is 0
\* exactly when n1 = 0, n2 = 0 or n1 = n2 = 1, the square root is defined,
\* and the zero-deviation branch of either class (z set to 0 in
\* prueba_rachas_enc_deb, the error of sigma_R == 0 in rachas_encima_debajo)
\* is taken exactly on those counts.
C25_Original ==
    /\ TerminoNoNegativo
    /\ RamaCeroPred
    /\ (EsRed /\ red_ok /\ red.n1 + red.n2 >= 2)
          => \A k \in 1..Len(red_rets) :
                ErrorDesviacion(red_rets[k]) <=> Degenerado(red.n1, red.n2)

\* C25 (amended): the same, but rachas_encima_debajo takes its zero-deviation
\* branch exactly when n1 = n2 = 1; when n1 = 0 or n2 = 0 the guard before
\* the variance returns its own error, and on every other count the return
\* is a result.
C25_VarianzaNoNegativa ==
    /\ TerminoNoNegativo
    /\ RamaCeroPred
    /\ (EsRed /\ red_ok /\ red.n1 + red.n2 >= 2)
          => \A k \in 1..Len(red_rets) :
                /\ ErrorDesviacion(red_rets[k]) <=> (red.n1 = 1 /\ red.n2 = 1)
                /\ ErrorSinRachas(red_rets[k]) <=> (red.n1 = 0 \/ red.n2 = 0)
                /\ EsFallo(red_rets[k]) <=> Degenerado(red.n1, red.n2)

C25_Witness ==
    /\ EsPred
    /\ llamadas > 0
    /\ pred.n1 = 1
    /\ pred.n2 = 1
    /\ pred.sigma2_B = <<0, 1>>
    /\ pred.z_prueba = Raiz(<<0, 1>>)
    /\ ~EsFallo(pred_rets[1])

Min(a, b) == IF a < b THEN a ELSE b

\* the bounds on a run count B for symbol counts n1 and n2
Acotado(B, n1, n2) ==
    /\ 1 <= B
    /\ B <= n1 + n2
    /\ B <= 2 * Min(n1, n2) + 1
    /\ (B = 1) <=> (n1 = 0 \/ n2 = 0)

\* C26: for every non-empty input the observed run count B satisfies
\* 1 <= B <= n and B <= 2*min(n1, n2) + 1, and B = 1 exactly when n1 = 0 or
\* n2 = 0, in both classes.
C26_RachasAcotadas ==
    /\ (EsPred /\ llamadas > 0 /\ pred.numeros # <<>>)
          => /\ pred.n1 + pred.n2 = Len(pred.numeros)
             /\ Acotado(pred.B, pred.n1, pred.n2)
    /\ (EsRed /\ red_ok)
          => /\ red.n1 + red.n2 = red.n_total
             /\ Acotado(_contar_rachas(red), red.n1, red.n2)
             /\ \A k \in 1..Len(red_rets) :
                   "rachas_observadas" \in DOMAIN red_rets[k]
                      => Acotado(red_rets[k].rachas_observadas,
                                 red_rets[k].n1, red_rets[k].n2)

\* the bound 2*min(n1, n2) + 1 is met with n1 # n2
C26_Witness ==
    /\ EsRed
    /\ red_ok
    /\ Len(red_rets) > 0
    /\ red.n1 = 1
    /\ red.n2 = 2
    /\ "rachas_observadas" \in DOMAIN red_rets[1]
    /\ red_rets[1].rachas_observadas = 3

====
